---- MODULE Spec2Model ----
(***************************************************************************)
(* A model of src/scraping/scraping.py: the listing paginator              *)
(* fetch_all_artists, the link extractor extract_urls_from_page, the       *)
(* content extractor extract_lyrics_from_url and the catalog lookup        *)
(* search_spotify.  The remote servers are the environment: what they      *)
(* answer is chosen nondeterministically, request by request.              *)
(***************************************************************************)
EXTENDS Integers, Sequences, FiniteSets, TLC

VARIABLES
    fn,            \* the function being executed ("none" before any call)
    pc,            \* the position inside it
    exc,           \* the exception that left the function ("none" if none)
    log,           \* the observable events so far: requests, answers, sleeps
    inflight,      \* number of requests sent and not yet answered
    \* fetch_all_artists
    increment, max_retries, delay,
    ini, all_artists, artist_links, resp,
    server,        \* the listing pages served so far, by offset
    stopAt,        \* an offset at which the listing server holds a stopping page
    \* extract_urls_from_page, extract_lyrics_from_url
    page_url, urls, doc, lyrics,
    \* search_spotify
    calls,         \* number of calls of search_spotify so far
    issued,        \* number of tokens the token endpoint has issued
    auth_status, search_status, access_token, tracks, match

pvars == <<increment, max_retries, delay, ini, all_artists, artist_links, server, stopAt>>
lvars == <<page_url, urls, doc, lyrics>>
svars == <<calls, issued, auth_status, search_status, access_token, tracks, match>>
vars == <<fn, pc, exc, log, inflight, resp, pvars, lvars, svars>>

-----------------------------------------------------------------------------
(* Bounds of the model, and the defaults of the arguments of               *)
(* fetch_all_artists.  Offsets and increments count in units of one page.  *)

MaxOffset == 3
MaxIncrement == 2
MaxDelay == 1
MaxNodes == 3
MaxCalls == 2

DefaultMaxRetries == 3
DefaultDelay == 1

Offsets == (0 - MaxOffset)..MaxOffset
Increments == (0 - 1)..MaxIncrement
MaxRequests == MaxOffset + 1
RetryCounts == {0, DefaultMaxRetries}
Delays == 0..MaxDelay

-----------------------------------------------------------------------------
(* URLs and urllib.parse.urljoin.  A URL reference is a scheme, a host, a  *)
(* flag saying whether its path starts at the root, and its path segments. *)

Ref(scheme, host, root, segs) ==
    [scheme |-> scheme, host |-> host, root |-> root, segs |-> segs]

NoHref == Ref("-", "-", FALSE, <<>>)
EmptyRef == Ref("", "", FALSE, <<>>)

HrefAbs == Ref("https", "other.example", TRUE, <<"x">>)
HrefRoot == Ref("", "", TRUE, <<"a">>)
HrefPath == Ref("", "", FALSE, <<"b">>)
HrefPath2 == Ref("", "", FALSE, <<"c", "d">>)

Hrefs == {HrefAbs, HrefRoot, HrefPath, HrefPath2, EmptyRef}

SiteRoot == Ref("https", "acordes.lacuerda.net", FALSE, <<>>)

IsAbsolute(u) == u.scheme \notin {"", "-"} /\ u.host \notin {"", "-"}

DropLast(s) == IF s = <<>> THEN <<>> ELSE SubSeq(s, 1, Len(s) - 1)

urljoin_unjoined(base, ref) == ref

urljoin(base, ref) ==
    IF ref = EmptyRef THEN base
    ELSE IF ref.scheme # "" /\ ref.scheme # base.scheme THEN ref
    ELSE IF ref.host # "" THEN [ref EXCEPT !.scheme = base.scheme]
    ELSE IF ref.root THEN Ref(base.scheme, base.host, TRUE, ref.segs)
    ELSE Ref(base.scheme, base.host, base.root \/ base.host # "",
             DropLast(base.segs) \o ref.segs)

-----------------------------------------------------------------------------
(* Documents.  A node is an element with a tag, an optional href and       *)
(* children; a listing page either holds the container <ul id="i_main">    *)
(* with its children, or does not hold it.                                 *)

A(h) == [tag |-> "a", href |-> h, kids |-> <<>>]
Li(kids) == [tag |-> "li", href |-> NoHref, kids |-> kids]

RECURSIVE Descendants(_)
Descendants(kids) ==
    IF kids = <<>> THEN <<>>
    ELSE <<Head(kids)>> \o Descendants(Head(kids).kids) \o Descendants(Tail(kids))

HasHref(n) == n.tag = "a" /\ n.href # NoHref

find_all(kids, tag) == SelectSeq(Descendants(kids), LAMBDA n : n.tag = tag)

Page(has_ul, kids) == [has_ul |-> has_ul, kids |-> kids]

PageNoContainer == Page(FALSE, <<>>)
PageEmpty == Page(TRUE, <<>>)
PageNoAnchor == Page(TRUE, <<Li(<<>>)>>)
PageTwo == Page(TRUE, <<Li(<<A(HrefRoot)>>), Li(<<A(HrefPath)>>)>>)
PageAbs == Page(TRUE, <<Li(<<A(HrefAbs)>>), Li(<<A(EmptyRef)>>), Li(<<A(HrefPath2)>>)>>)
PageSecondAnchor == Page(TRUE, <<Li(<<A(NoHref), A(HrefRoot)>>)>>)
PageNested == Page(TRUE, <<A(HrefRoot), Li(<<Li(<<A(HrefPath)>>), A(HrefAbs)>>)>>)

StopPages == {PageNoContainer, PageEmpty, PageNoAnchor}
Pages == StopPages \cup {PageTwo, PageAbs, PageSecondAnchor, PageNested}

-----------------------------------------------------------------------------
(* The event log: what an observer of the network and the clock sees.      *)

Ev(ev, arg) == [ev |-> ev, arg |-> arg]

EventsOf(l, ev) == SelectSeq(l, LAMBDA e : e.ev = ev)

Sends == EventsOf(log, "send")

-----------------------------------------------------------------------------
(* fetch_all_artists                                                       *)

\* li.find("a"): the first anchor below the list item, taken if it has an href
LiLink(li) ==
    LET anchors == find_all(li.kids, "a")
    IN  IF anchors # <<>> /\ HasHref(Head(anchors))
        THEN <<urljoin(SiteRoot, Head(anchors).href)>>
        ELSE <<>>

RECURSIVE LinksOfItems(_)
LinksOfItems(items) ==
    IF items = <<>> THEN <<>>
    ELSE LiLink(Head(items)) \o LinksOfItems(Tail(items))

\* the loop over main_ul.find_all("li")
ArtistLinks(page) == LinksOfItems(find_all(page.kids, "li"))

\* what the listing server holds at an offset: a page it has served stays
\* the same, and the page at stopAt is a stopping page
ServerPages(o) ==
    IF o \in DOMAIN server THEN {server[o]}
    ELSE IF o = stopAt THEN StopPages
    ELSE Pages

FetchAllArtists(inc, retries, d, s) ==
    /\ pc = "idle"
    /\ fn' = "fetch_all_artists"
    /\ increment' = inc
    /\ max_retries' = retries
    /\ delay' = d
    /\ stopAt' = s
    /\ all_artists' = <<>>
    /\ ini' = 0
    /\ pc' = "loop"
    /\ UNCHANGED <<lvars, svars, exc, log, inflight, resp, artist_links, server>>

SessionGet ==
    /\ fn = "fetch_all_artists" /\ pc = "loop"
    /\ ini \in Offsets /\ Len(Sends) < MaxRequests
    /\ log' = Append(log, Ev("send", ini))
    /\ inflight' = inflight + 1
    /\ pc' = "wait"
    /\ UNCHANGED <<lvars, svars, fn, exc, resp, pvars>>

RequestException_retry ==
    /\ fn = "fetch_all_artists" /\ pc = "wait"
    /\ log' = Append(log, Ev("error", ini))
    /\ inflight' = inflight - 1
    /\ pc' = IF max_retries > 0 THEN "loop" ELSE "break"
    /\ max_retries' = IF max_retries > 0 THEN max_retries - 1 ELSE max_retries
    /\ UNCHANGED <<lvars, svars, fn, exc, resp, increment, delay, ini, all_artists,
                   artist_links, server, stopAt>>

RequestException ==
    /\ fn = "fetch_all_artists" /\ pc = "wait"
    /\ log' = Append(log, Ev("error", ini))
    /\ inflight' = inflight - 1
    /\ pc' = "break"
    /\ UNCHANGED <<lvars, svars, fn, exc, resp, pvars>>

Response ==
    /\ fn = "fetch_all_artists" /\ pc = "wait"
    /\ \E p \in ServerPages(ini) :
        /\ resp' = p
        /\ server' = (ini :> p) @@ server
    /\ log' = Append(log, Ev("resp", ini))
    /\ inflight' = inflight - 1
    /\ pc' = "parse"
    /\ UNCHANGED <<lvars, svars, fn, exc, increment, max_retries, delay, ini, all_artists,
                   artist_links, stopAt>>

NoContainer ==
    /\ fn = "fetch_all_artists" /\ pc = "parse"
    /\ ~resp.has_ul
    /\ pc' = "break"
    /\ UNCHANGED <<lvars, svars, fn, exc, log, inflight, resp, pvars>>

ExtractLinks ==
    /\ fn = "fetch_all_artists" /\ pc = "parse"
    /\ resp.has_ul
    /\ artist_links' = ArtistLinks(resp)
    /\ pc' = "check"
    /\ UNCHANGED <<lvars, svars, fn, exc, log, inflight, resp, increment, max_retries, delay,
                   ini, all_artists, server, stopAt>>

NoArtists_continues ==
    /\ fn = "fetch_all_artists" /\ pc = "check"
    /\ artist_links = <<>>
    /\ ini' = ini + increment
    /\ pc' = "sleep"
    /\ UNCHANGED <<lvars, svars, fn, exc, log, inflight, resp, increment, max_retries, delay,
                   all_artists, artist_links, server, stopAt>>

NoArtists ==
    /\ fn = "fetch_all_artists" /\ pc = "check"
    /\ artist_links = <<>>
    /\ pc' = "break"
    /\ UNCHANGED <<lvars, svars, fn, exc, log, inflight, resp, pvars>>

Extend_prepend ==
    /\ fn = "fetch_all_artists" /\ pc = "check"
    /\ artist_links # <<>>
    /\ all_artists' = artist_links \o all_artists
    /\ ini' = ini + increment
    /\ log' = Append(log, Ev("extend", Len(artist_links)))
    /\ pc' = "sleep"
    /\ UNCHANGED <<lvars, svars, fn, exc, inflight, resp, increment, max_retries, delay,
                   artist_links, server, stopAt>>

Extend_assign ==
    /\ fn = "fetch_all_artists" /\ pc = "check"
    /\ artist_links # <<>>
    /\ all_artists' = all_artists \o artist_links
    /\ ini' = increment
    /\ log' = Append(log, Ev("extend", Len(artist_links)))
    /\ pc' = "sleep"
    /\ UNCHANGED <<lvars, svars, fn, exc, inflight, resp, increment, max_retries, delay,
                   artist_links, server, stopAt>>

Extend ==
    /\ fn = "fetch_all_artists" /\ pc = "check"
    /\ artist_links # <<>>
    /\ all_artists' = all_artists \o artist_links
    /\ ini' = ini + increment
    /\ log' = Append(log, Ev("extend", Len(artist_links)))
    /\ pc' = "sleep"
    /\ UNCHANGED <<lvars, svars, fn, exc, inflight, resp, increment, max_retries, delay,
                   artist_links, server, stopAt>>

Sleep_skipped ==
    /\ fn = "fetch_all_artists" /\ pc = "sleep"
    /\ pc' = "loop"
    /\ UNCHANGED <<lvars, svars, fn, exc, log, inflight, resp, pvars>>

Sleep ==
    /\ fn = "fetch_all_artists" /\ pc = "sleep"
    /\ log' = Append(log, Ev("sleep", delay))
    /\ pc' = "loop"
    /\ UNCHANGED <<lvars, svars, fn, exc, inflight, resp, pvars>>

Return ==
    /\ fn = "fetch_all_artists" /\ pc = "break"
    /\ pc' = "returned"
    /\ UNCHANGED <<lvars, svars, fn, exc, log, inflight, resp, pvars>>

PaginatorSteps ==
    \/ SessionGet
    \/ RequestException
    \/ Response
    \/ NoContainer
    \/ ExtractLinks
    \/ NoArtists
    \/ Extend
    \/ Sleep
    \/ Return

NextPaginator ==
    \/ \E inc \in Increments, r \in RetryCounts, d \in Delays, s \in Offsets :
          FetchAllArtists(inc, r, d, s)
    \/ PaginatorSteps

\* calls that leave max_retries and delay at their defaults
NextPaginatorDefaults ==
    \/ \E inc \in Increments, s \in Offsets :
          FetchAllArtists(inc, DefaultMaxRetries, DefaultDelay, s)
    \/ PaginatorSteps

-----------------------------------------------------------------------------
(* requests.get on an arbitrary URL: a URL without an http(s) scheme or    *)
(* without a host raises MissingSchema, InvalidSchema or InvalidURL, all   *)
(* of them RequestException, before anything is sent.                      *)

UrlPage == Ref("https", "acordes.lacuerda.net", TRUE, <<"art", "idx">>)
UrlHost == Ref("http", "lacuerda.net", FALSE, <<>>)
UrlRelative == Ref("", "", FALSE, <<"art", "idx">>)
UrlFtp == Ref("ftp", "files.example", TRUE, <<"d", "f">>)
UrlNoHost == Ref("https", "", TRUE, <<"p">>)

PageUrls == {UrlPage, UrlHost, UrlRelative, UrlFtp, UrlNoHost}

Fetchable(u) == u.scheme \in {"http", "https"} /\ u.host # ""

-----------------------------------------------------------------------------
(* extract_urls_from_page                                                  *)

InLinks == fn = "extract_urls_from_page"

\* b_main.find_all('a', href=True)
a_tags(page) == SelectSeq(Descendants(page.kids), HasHref)

JoinedUrls(base, anchors) == [i \in 1..Len(anchors) |-> urljoin(base, anchors[i].href)]

ExtractUrlsFromPage(u) ==
    /\ pc = "idle"
    /\ fn' = "extract_urls_from_page"
    /\ page_url' = u
    /\ urls' = <<>>
    /\ pc' = "get"
    /\ UNCHANGED <<exc, log, inflight, resp, pvars, doc, lyrics, svars>>

LinksGet ==
    /\ InLinks /\ pc = "get"
    /\ log' = Append(log, Ev("send", 0))
    /\ inflight' = inflight + 1
    /\ pc' = "wait"
    /\ UNCHANGED <<fn, exc, resp, pvars, lvars, svars>>

LinksRequestException_raises ==
    /\ InLinks /\ pc = "wait"
    /\ log' = Append(log, Ev("error", 0))
    /\ inflight' = inflight - 1
    /\ exc' = "RequestException"
    /\ pc' = "raised"
    /\ UNCHANGED <<fn, resp, pvars, lvars, svars>>

LinksRequestException ==
    /\ InLinks /\ pc = "wait"
    /\ log' = Append(log, Ev("error", 0))
    /\ inflight' = inflight - 1
    /\ urls' = <<>>
    /\ pc' = "returned"
    /\ UNCHANGED <<fn, exc, resp, pvars, page_url, doc, lyrics, svars>>

LinksResponse ==
    /\ InLinks /\ pc = "wait"
    /\ Fetchable(page_url)
    /\ \E p \in Pages : resp' = p
    /\ log' = Append(log, Ev("resp", 0))
    /\ inflight' = inflight - 1
    /\ pc' = "parse"
    /\ UNCHANGED <<fn, exc, pvars, lvars, svars>>

LinksNoContainer ==
    /\ InLinks /\ pc = "parse"
    /\ ~resp.has_ul
    /\ pc' = "returned"
    /\ UNCHANGED <<fn, exc, log, inflight, resp, pvars, lvars, svars>>

LinksNoAnchors ==
    /\ InLinks /\ pc = "parse"
    /\ resp.has_ul /\ a_tags(resp) = <<>>
    /\ pc' = "returned"
    /\ UNCHANGED <<fn, exc, log, inflight, resp, pvars, lvars, svars>>

LinksCollect ==
    /\ InLinks /\ pc = "parse"
    /\ resp.has_ul /\ a_tags(resp) # <<>>
    /\ urls' = JoinedUrls(page_url, a_tags(resp))
    /\ pc' = "returned"
    /\ UNCHANGED <<fn, exc, log, inflight, resp, pvars, page_url, doc, lyrics, svars>>

NextLinks ==
    \/ \E u \in PageUrls : ExtractUrlsFromPage(u)
    \/ LinksGet
    \/ LinksRequestException
    \/ LinksResponse
    \/ LinksNoContainer
    \/ LinksNoAnchors
    \/ LinksCollect

-----------------------------------------------------------------------------
(* extract_lyrics_from_url.  A text is a sequence of characters, with the  *)
(* four characters "<br>" kept as one; a content page is the sequence of   *)
(* its <div class="rLetra"> blocks, each the sequence of its text nodes.   *)

InLyrics == fn = "extract_lyrics_from_url"

Marker == "<br>"
Whitespace == {" ", "\n"}

TextWord == <<"x">>
TextBlank == <<" ", "\n">>
TextPadded == <<" ", "y", "\n">>
TextInner == <<"x", " ", "y">>
TextMarker == <<"x", Marker>>

Texts == {TextWord, TextBlank, TextPadded, TextInner, TextMarker}

SeqsUpTo(S, n) == UNION {[1..k -> S] : k \in 0..n}

Blocks == SeqsUpTo(Texts, MaxNodes)

Docs == {<<>>} \cup {<<b>> : b \in Blocks}
            \cup {<<b, <<TextWord, TextWord>>>> : b \in SeqsUpTo(Texts, 1)}

RECURSIVE LStrip(_)
LStrip(t) == IF t # <<>> /\ Head(t) \in Whitespace THEN LStrip(Tail(t)) ELSE t

RECURSIVE RStrip(_)
RStrip(t) == IF t # <<>> /\ t[Len(t)] \in Whitespace THEN RStrip(DropLast(t)) ELSE t

Strip(t) == RStrip(LStrip(t))

\* the strings get_text joins: each text node stripped, the empty ones skipped
RECURSIVE StrippedStrings(_)
StrippedStrings(nodes) ==
    IF nodes = <<>> THEN <<>>
    ELSE (IF Strip(Head(nodes)) = <<>> THEN <<>> ELSE <<Strip(Head(nodes))>>)
         \o StrippedStrings(Tail(nodes))

RECURSIVE StrippedKeepingEmpty(_)
StrippedKeepingEmpty(nodes) ==
    IF nodes = <<>> THEN <<>>
    ELSE <<Strip(Head(nodes))>> \o StrippedKeepingEmpty(Tail(nodes))

RECURSIVE Join(_, _)
Join(sep, strs) ==
    IF strs = <<>> THEN <<>>
    ELSE IF Len(strs) = 1 THEN Head(strs)
    ELSE Head(strs) \o sep \o Join(sep, Tail(strs))

get_text_keeping_empty(block) == Join(<<Marker>>, StrippedKeepingEmpty(block))

\* r_letra_div.get_text(separator='<br>', strip=True)
get_text(block) == Join(<<Marker>>, StrippedStrings(block))

ExtractLyricsFromUrl(u) ==
    /\ pc = "idle"
    /\ fn' = "extract_lyrics_from_url"
    /\ page_url' = u
    /\ lyrics' = <<>>
    /\ pc' = "get"
    /\ UNCHANGED <<exc, log, inflight, resp, pvars, urls, doc, svars>>

LyricsGet ==
    /\ InLyrics /\ pc = "get"
    /\ log' = Append(log, Ev("send", 0))
    /\ inflight' = inflight + 1
    /\ pc' = "wait"
    /\ UNCHANGED <<fn, exc, resp, pvars, lvars, svars>>

LyricsRequestException ==
    /\ InLyrics /\ pc = "wait"
    /\ log' = Append(log, Ev("error", 0))
    /\ inflight' = inflight - 1
    /\ lyrics' = <<>>
    /\ pc' = "returned"
    /\ UNCHANGED <<fn, exc, resp, pvars, page_url, urls, doc, svars>>

LyricsResponse ==
    /\ InLyrics /\ pc = "wait"
    /\ Fetchable(page_url)
    /\ \E d \in Docs : doc' = d
    /\ log' = Append(log, Ev("resp", 0))
    /\ inflight' = inflight - 1
    /\ pc' = "parse"
    /\ UNCHANGED <<fn, exc, resp, pvars, page_url, urls, lyrics, svars>>

LyricsNoDiv ==
    /\ InLyrics /\ pc = "parse"
    /\ doc = <<>>
    /\ lyrics' = <<>>
    /\ pc' = "returned"
    /\ UNCHANGED <<fn, exc, log, inflight, resp, pvars, page_url, urls, doc, svars>>

LyricsGetText ==
    /\ InLyrics /\ pc = "parse"
    /\ doc # <<>>
    /\ lyrics' = get_text(Head(doc))
    /\ pc' = "returned"
    /\ UNCHANGED <<fn, exc, log, inflight, resp, pvars, page_url, urls, doc, svars>>

NextLyrics ==
    \/ \E u \in PageUrls : ExtractLyricsFromUrl(u)
    \/ LyricsGet
    \/ LyricsRequestException
    \/ LyricsResponse
    \/ LyricsNoDiv
    \/ LyricsGetText

-----------------------------------------------------------------------------
(* search_spotify.  The token endpoint numbers the tokens it issues; a     *)
(* track is its name, its album's name and its album's release date.       *)

InSpotify == fn = "search_spotify"

StatusOK == 200
Statuses == {StatusOK, 401, 500}

Track(name, album, date) == [name |-> name, album |-> album, release_date |-> date]

TrackA == Track("Yesterday", "Help!", "1965-08-06")
TrackB == Track("Yesterday", "1", "2000-11-13")

TrackLists == {<<>>, <<TrackA>>, <<TrackB, TrackA>>}

Dict(keys, track, album, date, metadata) ==
    [keys |-> keys, track |-> track, album |-> album, release_date |-> date,
     metadata |-> metadata]

EmptyDict == Dict({}, "", "", "", <<>>)

SearchSpotify ==
    /\ \/ pc = "idle"
       \/ InSpotify /\ pc \in {"returned", "raised"}
    /\ calls < MaxCalls
    /\ fn' = "search_spotify"
    /\ calls' = calls + 1
    /\ exc' = "none"
    /\ auth_status' = 0
    /\ search_status' = 0
    /\ access_token' = 0
    /\ match' = EmptyDict
    /\ tracks' = <<>>
    /\ pc' = "auth"
    /\ UNCHANGED <<log, inflight, resp, pvars, lvars, issued>>

AuthPost ==
    /\ InSpotify /\ pc = "auth"
    /\ log' = Append(log, Ev("post_token", calls))
    /\ inflight' = inflight + 1
    /\ pc' = "auth_wait"
    /\ UNCHANGED <<fn, exc, resp, pvars, lvars, svars>>

\* requests.post raises (connection error, timeout): nothing catches it
AuthTransportError ==
    /\ InSpotify /\ pc = "auth_wait"
    /\ log' = Append(log, Ev("error", calls))
    /\ inflight' = inflight - 1
    /\ exc' = "RequestException"
    /\ pc' = "raised"
    /\ UNCHANGED <<fn, resp, pvars, lvars, svars>>

AuthOK ==
    /\ InSpotify /\ pc = "auth_wait"
    /\ auth_status' = StatusOK
    /\ issued' = issued + 1
    /\ access_token' = issued + 1
    /\ log' = Append(log, Ev("token", issued + 1))
    /\ inflight' = inflight - 1
    /\ pc' = "search"
    /\ UNCHANGED <<fn, exc, resp, pvars, lvars, calls, search_status, tracks, match>>

AuthRejected(status) ==
    /\ InSpotify /\ pc = "auth_wait"
    /\ status # StatusOK
    /\ auth_status' = status
    /\ log' = Append(log, Ev("rejected", status))
    /\ inflight' = inflight - 1
    /\ exc' = "RuntimeError"
    /\ pc' = "raised"
    /\ UNCHANGED <<fn, resp, pvars, lvars, calls, issued, search_status,
                   access_token, tracks, match>>

SearchGet ==
    /\ InSpotify /\ pc = "search"
    /\ log' = Append(log, Ev("get_search", access_token))
    /\ inflight' = inflight + 1
    /\ pc' = "search_wait"
    /\ UNCHANGED <<fn, exc, resp, pvars, lvars, svars>>

\* requests.get raises (connection error, timeout): nothing catches it
SearchTransportError ==
    /\ InSpotify /\ pc = "search_wait"
    /\ log' = Append(log, Ev("error", calls))
    /\ inflight' = inflight - 1
    /\ exc' = "RequestException"
    /\ pc' = "raised"
    /\ UNCHANGED <<fn, resp, pvars, lvars, svars>>

SearchFailed(status) ==
    /\ InSpotify /\ pc = "search_wait"
    /\ status # StatusOK
    /\ search_status' = status
    /\ match' = EmptyDict
    /\ log' = Append(log, Ev("result", status))
    /\ inflight' = inflight - 1
    /\ pc' = "returned"
    /\ UNCHANGED <<fn, exc, resp, pvars, lvars, calls, issued, auth_status,
                   access_token, tracks>>

SearchNoTracks ==
    /\ InSpotify /\ pc = "search_wait"
    /\ search_status' = StatusOK
    /\ tracks' = <<>>
    /\ match' = EmptyDict
    /\ log' = Append(log, Ev("result", StatusOK))
    /\ inflight' = inflight - 1
    /\ pc' = "returned"
    /\ UNCHANGED <<fn, exc, resp, pvars, lvars, calls, issued, auth_status,
                   access_token>>

SearchHit(items) ==
    /\ InSpotify /\ pc = "search_wait"
    /\ items # <<>>
    /\ search_status' = StatusOK
    /\ tracks' = items
    /\ match' = Dict({"track", "album", "release_date", "metadata"},
                     items[1].name, items[1].album, items[1].release_date, items)
    /\ log' = Append(log, Ev("result", StatusOK))
    /\ inflight' = inflight - 1
    /\ pc' = "returned"
    /\ UNCHANGED <<fn, exc, resp, pvars, lvars, calls, issued, auth_status,
                   access_token>>

NextSpotify ==
    \/ SearchSpotify
    \/ AuthPost
    \/ AuthTransportError
    \/ AuthOK
    \/ \E st \in Statuses : AuthRejected(st)
    \/ SearchGet
    \/ SearchTransportError
    \/ \E st \in Statuses : SearchFailed(st)
    \/ SearchNoTracks
    \/ \E items \in TrackLists : SearchHit(items)

-----------------------------------------------------------------------------

Init ==
    /\ fn = "none" /\ pc = "idle" /\ exc = "none"
    /\ log = <<>> /\ inflight = 0
    /\ increment = 0 /\ max_retries = 0 /\ delay = 0
    /\ ini = 0 /\ all_artists = <<>> /\ artist_links = <<>>
    /\ resp = PageNoContainer
    /\ server = <<>> /\ stopAt = 0
    /\ page_url = EmptyRef /\ urls = <<>> /\ doc = <<>> /\ lyrics = <<>>
    /\ calls = 0 /\ issued = 0 /\ auth_status = 0 /\ search_status = 0
    /\ access_token = 0 /\ tracks = <<>> /\ match = EmptyDict

Next ==
    \/ NextPaginator
    \/ NextLinks
    \/ NextLyrics
    \/ NextSpotify

Spec == Init /\ [][Next]_vars

\* fetch_all_artists alone, under the scheduling of a sequential program: a
\* step that can be taken is taken
FairPaginator ==
    Init /\ [][NextPaginatorDefaults]_vars /\ WF_vars(NextPaginatorDefaults)

-----------------------------------------------------------------------------
(* Properties of fetch_all_artists                                         *)

InPaginator == fn = "fetch_all_artists"

\* the offsets requested so far, in order
Requested == [i \in 1..Len(Sends) |-> Sends[i].arg]

\* a stopping page promised by the server lies on the offsets still to come
OnCourse == \E k \in 0..(2 * MaxOffset) : ini + k * increment = stopAt

RECURSIVE ConcatLinks(_)
ConcatLinks(offs) ==
    IF offs = <<>> THEN <<>>
    ELSE ArtistLinks(server[Head(offs)]) \o ConcatLinks(Tail(offs))

IsStopping(page) == ~page.has_ul \/ ArtistLinks(page) = <<>>

LastEvent == log[Len(log)]

\* C1 (as claimed): the call returns for every listing server that holds a
\* stopping page at some offset, whatever the increment.  It returns against
\* every such server only if, each time the loop comes round again, the
\* server's stopping offset is still among the offsets the loop is going to
\* request: otherwise the server whose other pages all hold links keeps it
\* running for ever.
C1_Original == (InPaginator /\ pc = "loop" /\ log # <<>>) => OnCourse

\* C1 (amended): once the loop is headed for the server's stopping offset,
\* which is ini + k * increment for some k >= 0, the call eventually returns.
C1_Terminates == (InPaginator /\ pc = "loop" /\ OnCourse) ~> (pc = "returned")

C1_Witness ==
    /\ InPaginator /\ pc = "returned"
    /\ Len(Sends) = 3 /\ increment = 1 /\ stopAt = 2
    /\ LastEvent = Ev("resp", 2)

\* C2: the returned list is the concatenation, in visit order, of the link
\* sequences extracted from the pages visited before the first stopping page;
\* those pages all had the container and links, and the last page requested
\* failed, had no container or had no links.
C2_Concatenation ==
    (InPaginator /\ pc = "returned") =>
        LET offs == Requested
            n == Len(offs)
        IN  /\ n >= 1
            /\ all_artists = ConcatLinks(DropLast(offs))
            /\ \A i \in 1..(n - 1) : ~IsStopping(server[offs[i]])
            /\ \/ LastEvent.ev = "error"
               \/ IsStopping(server[offs[n]])

C2_Witness ==
    /\ InPaginator /\ pc = "returned"
    /\ Len(Sends) = 3 /\ increment = 1
    /\ DOMAIN server = {0, 1, 2}
    /\ server[0] = PageAbs /\ server[1] = PageTwo /\ server[2] = PageNoContainer
    /\ Len(all_artists) = 5

\* C3 (as claimed): the requested offsets are strictly increasing, for every
\* increment the function accepts.
C3_Original ==
    InPaginator => \A i, j \in 1..Len(Sends) : i < j => Sends[i].arg < Sends[j].arg

\* C3 (amended): the k-th request (from 0) uses offset k * increment; for a
\* positive increment the offsets are strictly increasing, so none is
\* requested twice.
C3_Offsets ==
    InPaginator =>
        /\ \A k \in 1..Len(Sends) : Sends[k].arg = (k - 1) * increment
        /\ increment > 0 =>
              \A i, j \in 1..Len(Sends) : i < j => Sends[i].arg < Sends[j].arg

C3_Witness ==
    /\ InPaginator /\ increment = 2 /\ Len(Sends) = 2 /\ Sends[2].arg = 2

RECURSIVE Rounds(_, _)
\* the events of the loop's turns k..n-1 that went through to the sleep
Rounds(k, n) ==
    IF k >= n THEN <<>>
    ELSE <<Ev("send", k * increment), Ev("resp", k * increment),
           Ev("extend", Len(ArtistLinks(server[k * increment]))),
           Ev("sleep", delay)>> \o Rounds(k + 1, n)

HasError == \E i \in 1..Len(log) : log[i].ev = "error"

C8_SequentialWithDelay ==
    InPaginator =>
        /\ inflight \in {0, 1}
        /\ inflight = 1 <=> (log # <<>> /\ LastEvent.ev = "send")
        /\ \A i \in 1..Len(log) :
              /\ log[i].ev = "send" /\ i > 1 =>
                    /\ i >= 5
                    /\ log[i - 1] = Ev("sleep", delay)
                    /\ log[i - 2].ev = "extend"
                    /\ log[i - 3].ev = "resp"
                    /\ log[i - 4].ev = "send"
              /\ log[i].ev = "sleep" => i > 1 /\ log[i - 1].ev = "extend"
              /\ log[i].ev = "extend" => i > 1 /\ log[i - 1].ev = "resp"
              /\ log[i].ev \in {"resp", "error"} => i > 1 /\ log[i - 1].ev = "send"
        /\ pc = "loop" /\ log # <<>> =>
              /\ LastEvent = Ev("sleep", delay)
              /\ ini = Len(Sends) * increment
        /\ pc \in {"break", "returned"} => LastEvent.ev \in {"resp", "error"}

C8_Witness ==
    /\ InPaginator /\ pc = "returned" /\ delay = 1
    /\ Len(Sends) = 3 /\ Len(EventsOf(log, "sleep")) = 2

-----------------------------------------------------------------------------
(* Properties of the extractors and of search_spotify                      *)

AllAbsolute(us) == \A i \in 1..Len(us) : IsAbsolute(us[i])

\* C5: every URL that fetch_all_artists collects and every URL that
\* extract_urls_from_page returns has a scheme and a host, whatever the
\* shape of the hrefs and whatever the page_url.
C5_AbsoluteUrls ==
    /\ InPaginator => AllAbsolute(all_artists) /\ AllAbsolute(artist_links)
    /\ InLinks => AllAbsolute(urls)

C5_Witness ==
    /\ InLinks /\ pc = "returned"
    /\ page_url = UrlPage /\ resp = PageAbs
    /\ urls = <<HrefAbs, UrlPage, Ref("https", "acordes.lacuerda.net", TRUE, <<"art", "c", "d">>)>>

\* C6 (as claimed): search_spotify raises exactly when the token request did
\* not come back with status 200 (a token request that fails without any
\* status counted with the non-200 ones), and then sends no search; otherwise
\* it returns, the empty match for a non-200 search or a search without
\* tracks, the top hit's record for a search with tracks.
C6_Original ==
    (InSpotify /\ pc \in {"returned", "raised"}) =>
        /\ pc = "raised" <=> auth_status # StatusOK
        /\ pc = "raised" => LastEvent.ev # "get_search"
        /\ pc = "returned" =>
              IF search_status # StatusOK \/ tracks = <<>>
              THEN match = EmptyDict
              ELSE match = Dict({"track", "album", "release_date", "metadata"},
                                tracks[1].name, tracks[1].album,
                                tracks[1].release_date, tracks)

CountMarker(t) == Len(SelectSeq(t, LAMBDA c : c = Marker))

RECURSIVE InnerMarkers(_)
InnerMarkers(nodes) ==
    IF nodes = <<>> THEN 0
    ELSE CountMarker(Head(nodes)) + InnerMarkers(Tail(nodes))

NonBlank(nodes) == SelectSeq(nodes, LAMBDA t : Strip(t) # <<>>)

Trimmed(t) == t = <<>> \/ (Head(t) \notin Whitespace /\ t[Len(t)] \notin Whitespace)

\* the call fetched a page whose first content block holds text nodes
LyricsExtracted ==
    /\ InLyrics /\ pc = "returned"
    /\ LastEvent.ev = "resp" /\ doc # <<>> /\ Len(Head(doc)) >= 1

\* C7 (as claimed): for a first content block of N text nodes the result
\* holds exactly N - 1 markers and no leading or trailing whitespace,
\* whatever the nodes contain.
C7_Original ==
    LyricsExtracted =>
        /\ CountMarker(lyrics) = Len(Head(doc)) - 1
        /\ Trimmed(lyrics)

\* C7 (amended): the result joins the M text nodes of the first content block
\* that are not whitespace-only: it holds M - 1 joining markers (none when
\* M = 0) besides the markers the texts themselves contain, and it has no
\* leading or trailing whitespace.
C7_Markers ==
    LyricsExtracted =>
        LET M == Len(NonBlank(Head(doc)))
        IN  /\ CountMarker(lyrics) =
                  (IF M = 0 THEN 0 ELSE M - 1) + InnerMarkers(Head(doc))
            /\ Trimmed(lyrics)
            /\ M = 0 <=> lyrics = <<>>

C7_Witness ==
    /\ LyricsExtracted
    /\ Head(doc) = <<TextWord, TextBlank, TextPadded>>
    /\ lyrics = <<"x", Marker, "y">>

\* C9 (as claimed): the links taken from a listing page are those of all the
\* anchors with an href inside the container, each once, in document order.
C9_Original ==
    (InPaginator /\ pc = "check") => artist_links = JoinedUrls(SiteRoot, a_tags(resp))

\* C10: extract_urls_from_page and extract_lyrics_from_url send one request
\* per call and never raise; after a failed fetch, as for a page without the
\* target element, they return the empty sequence and the empty string.
C10_OneRequestNoRaise ==
    (InLinks \/ InLyrics) =>
        /\ exc = "none" /\ pc # "raised"
        /\ Len(Sends) <= 1
        /\ pc = "returned" =>
              /\ Len(Sends) = 1
              /\ LastEvent.ev = "error" => urls = <<>> /\ lyrics = <<>>
              /\ LastEvent.ev = "resp" /\ InLinks /\ ~resp.has_ul => urls = <<>>
              /\ LastEvent.ev = "resp" /\ InLyrics /\ doc = <<>> => lyrics = <<>>

C10_Witness ==
    /\ InLinks /\ pc = "returned"
    /\ page_url = UrlPage /\ LastEvent.ev = "error" /\ urls = <<>>

====
